---- MODULE Spec2Model ----
(***************************************************************************)
(* The asynchronous output pipeline of img_common/autoencoder.py:          *)
(* the inference loop (_run_model) puts one payload per sample on a        *)
(* bounded queue; the coordinator process (_handle_output) dequeues them   *)
(* by position and dispatches one job to each of two pools; the jobs write *)
(* the shared tables (bpps, metrics) and the image files; after joining    *)
(* the pools the coordinator writes the reports (_save_out_analysis).      *)
(***************************************************************************)
EXTENDS Integers, Sequences, FiniteSets, TLC

\* ---------------------------------------------------------------- bounds
\* largest number of images of the dataset listing
MaxImages == 2
\* largest run_cfg['queue_size']
MaxQueue == 2
\* largest cpu_count()
MaxCpu == 3
\* conf['input_shape'][0], the batch size of the data loader
BatchSize == 2
\* largest number of compression levels of a cell given to the report builder
MaxLevels == 2
\* largest level value of a cell given to the report builder
MaxValue == 2
\* largest number of images of a run whose pool workers make no progress
MaxSlowImages == 5

\* ------------------------------------------------------- program constants
\* Python's None, the initial content of every table cell; a written cell
\* is the sequence of its levels' values, at least one
None == <<>>
\* the retry ceiling of the polling loop: "if cont > 100"
RetryCeiling == 100
\* the number of members of the Metrics enumeration
NumMetrics == 2

\* the Codecs enumeration: the learned codec and a reference codec
Codecs == {"NET", "REF"}
\* the reference codec taken for the learned one
NET_reference == "REF"
\* Codecs.NET, the learned codec
NET == "NET"
\* metric[0] of each member of the Metrics enumeration
Metrics == 0 .. (NumMetrics - 1)

VARIABLES
    img_pathnames,  \* list(gen.get_db_files_pathnames()), ImageIndex = position
    num_samples,    \* number of samples the data loader yields
    queue_size,     \* run['queue_size']
    num_procs,      \* <<size of pools[0], size of pools[1]>>
    ppc,            \* position of _run_model: forward, put, join, done
    batch_idx,      \* _run_model's batch_idx
    output,         \* the current batch's outputs
    j,              \* _run_model's j, the index into the batch
    out_queue,      \* st.out_queue
    hpc,            \* position of _handle_output: loop, dispatch, join, report, done
    img_num,        \* _handle_output's img_num
    model_data,     \* _handle_output's model_data
    pools,          \* the tasks of pools[0] (.A) and pools[1] (.B), in submission order
    bpps,           \* bpps[codec][pos]
    metrics,        \* metrics[codec][metric][pos]
    files,          \* the image files: out pathname -> the writes it received
    reports,        \* the codecs whose csv report was written
    csv,            \* the csv written for each codec of reports
    out_type,       \* st.out_type
    falsy_bpp,      \* the compressed size of a payload may be 0
    timeout_msgs,   \* the paths _timeout_msg was printed for
    bpp_writes,     \* history: the tasks that wrote bpps[codec][pos]
    metric_writes,  \* history: the tasks that wrote metrics[codec][metric][pos]
    sent,           \* history: the payloads put on out_queue, in order
    received        \* history: the payloads got from out_queue, in order

vars == <<img_pathnames, num_samples, queue_size, num_procs, ppc, batch_idx,
          output, j, out_queue, hpc, img_num, model_data, pools, bpps,
          metrics, files, reports, csv, out_type, falsy_bpp, timeout_msgs,
          bpp_writes, metric_writes, sent, received>>

config_vars == <<img_pathnames, num_samples, queue_size, num_procs, out_type,
                 falsy_bpp>>
producer_vars == <<ppc, batch_idx, output, j>>
coord_vars == <<hpc, img_num, model_data>>
table_vars == <<bpps, metrics, bpp_writes, metric_writes>>
artifact_vars == <<files, reports, csv, timeout_msgs>>
queue_vars == <<out_queue, sent, received>>

\* ------------------------------------------------------------ the inputs
\* A path is <<folder, stem>>.  The listing is not sorted.
DistinctListing(n) == [k \in 1 .. n |-> <<1, n + 1 - k>>]
\* the same base name in different folders
SameStemListing(n) == [k \in 1 .. n |-> <<n + 1 - k, 1>>]
Listings(n) == {DistinctListing(n), SameStemListing(n)}

N == Len(img_pathnames)
ImageIndex == 0 .. (N - 1)

\* model_data before the first get: not a payload
NoPayload == 0

\* a csv file that was not written
NoCsv == [cols |-> <<>>, rows |-> <<>>, mean |-> <<>>]

\* st.autoenc[0](data) for the k-th sample (k from 0), as a payload identifier
AutoencOutput(k) == 2 * k + 1

\* ImgProc.calc_bpp_using_gzip's value for a payload: a positive size, for
\* the one level of the learned codec
GzipBpp(data) == <<data + 1>>

\* the value of a payload whose compressed size is 0
ZeroBpp == <<0>>

\* ImgProc.calc_metric(orig_ref, patches, metric)
CalcMetric(orig_ref, patches, metric) ==
    <<1000 * (metric + 1) + 100 * orig_ref[1] + 10 * orig_ref[2] + patches>>

\* ImgProc.load_image(orig_path, ...): the image stored at the path
LoadImage(orig_path) == orig_path

\* Python's truth value of a cell: None and a zero value are false
Truthy(v) == v # None /\ v # ZeroBpp

\* AutoEnc.get_out_pathname: save_folder / (img_path.stem + ext)
get_out_pathname(img_path) == img_path[2]

\* _create_out_folder: None for OutputType.NONE, else the prediction folder
create_out_folder == IF out_type = "NONE" THEN "None" ELSE "test"

\* an output folder that is never missing
NoFolder_never(folder) == FALSE

\* Path(save_folder) and folder / name raise TypeError when the folder is None
NoFolder(folder) == folder = "None"

\* np.ceil(fraction * cpu_count()).astype(int), the fraction in percent
CeilPercent(percent, cpus) == (percent * cpus + 99) \div 100

\* _instantiate_shared_variables: the pool sizes
NumProcs(cpus) == <<CeilPercent(30, cpus), CeilPercent(45, cpus)>>

\* _instantiate_shared_variables: manager.list([None] * var_len) per codec
EmptyBpps(var_len) == [c \in Codecs |-> [i \in 0 .. (var_len - 1) |-> None]]

\* _instantiate_shared_variables: one manager list per codec and metric
EmptyMetrics(var_len) ==
    [c \in Codecs |-> [m \in Metrics |-> [i \in 0 .. (var_len - 1) |-> None]]]

Stems == {img_pathnames[k][2] : k \in 1 .. N}

\* the state when _run_model has started _handle_output: the listing is
\* read, the pools and the tables are allocated, nothing is on the queue
Start(listing, samples, type, falsy) ==
    /\ img_pathnames = listing
    /\ num_samples = samples
    /\ out_type = type
    /\ falsy_bpp = falsy
    /\ queue_size \in 1 .. MaxQueue
    /\ \E cpus \in 1 .. MaxCpu : num_procs = NumProcs(cpus)
    /\ ppc = IF samples > 0 THEN "forward" ELSE "join"
    /\ batch_idx = 0
    /\ output = <<>>
    /\ j = 0
    /\ out_queue = <<>>
    /\ hpc = "loop"
    /\ img_num = 0
    /\ model_data = NoPayload
    /\ pools = [A |-> <<>>, B |-> <<>>]
    /\ bpps = EmptyBpps(Len(listing))
    /\ metrics = EmptyMetrics(Len(listing))
    /\ files = [s \in {listing[k][2] : k \in 1 .. Len(listing)} |-> <<>>]
    /\ reports = {}
    /\ csv = [c \in Codecs |-> NoCsv]
    /\ timeout_msgs = {}
    /\ bpp_writes = [c \in Codecs |-> [i \in 0 .. (Len(listing) - 1) |-> <<>>]]
    /\ metric_writes = [c \in Codecs |-> [m \in Metrics |->
                            [i \in 0 .. (Len(listing) - 1) |-> <<>>]]]
    /\ sent = <<>>
    /\ received = <<>>

\* test_model: one sample per listed image, out_type RECONSTRUCTION
Init ==
    \E n \in 1 .. MaxImages : \E listing \in Listings(n) :
        Start(listing, n, "RECONSTRUCTION", FALSE)

\* ------------------------------------------------- _run_model, the producer
Min(a, b) == IF a < b THEN a ELSE b

\* the samples of batch b of the data loader
BatchLen(b) == Min(BatchSize, num_samples - b * BatchSize)

\* lines 390-417: one iteration's forward pass
Forward ==
    /\ ppc = "forward"
    /\ output' = [x \in 1 .. BatchLen(batch_idx) |->
                    AutoencOutput(batch_idx * BatchSize + x - 1)]
    /\ j' = 0
    /\ ppc' = "put"
    /\ UNCHANGED <<config_vars, batch_idx, queue_vars, coord_vars, pools,
                   table_vars, artifact_vars>>

\* a put that places the item at the front of the queue
Enqueue_front(q, x) == <<x>> \o q

\* Queue.put(x) on a queue with room: x goes to the back
Enqueue(q, x) == Append(q, x)

\* a put that goes through while the queue already holds queue_size items
QueueHasRoom_one_more == Len(out_queue) <= queue_size

\* Queue.put blocks while the queue is full
QueueHasRoom == Len(out_queue) < queue_size

\* the position after the put of output[j]
AfterPut ==
    IF j + 1 < Len(output) THEN "put"
    ELSE IF (batch_idx + 1) * BatchSize < num_samples THEN "forward"
    ELSE "join"

\* lines 418-421: st.out_queue.put(output[j])
Put ==
    /\ ppc = "put"
    /\ QueueHasRoom
    /\ out_queue' = Enqueue(out_queue, output[j + 1])
    /\ sent' = Append(sent, output[j + 1])
    /\ ppc' = AfterPut
    /\ j' = IF AfterPut = "put" THEN j + 1 ELSE j
    /\ batch_idx' = IF AfterPut = "put" THEN batch_idx ELSE batch_idx + 1
    /\ UNCHANGED <<config_vars, output, coord_vars, pools, table_vars,
                   artifact_vars, received>>

\* a join that returns at once
PatchProcExited_at_once == TRUE

\* patch_proc.join() returns when _handle_output has returned
PatchProcExited == hpc = "done"

\* lines 422-423: patch_proc.join()
PatchProcJoin ==
    /\ ppc = "join"
    /\ PatchProcExited
    /\ ppc' = "done"
    /\ UNCHANGED <<config_vars, batch_idx, output, j, queue_vars, coord_vars,
                   pools, table_vars, artifact_vars>>

\* --------------------------------------------- _handle_output, the coordinator
\* a loop that also ends when the queue is found empty
LoopOver_on_empty == img_num >= N \/ out_queue = <<>>

\* line 248: "for img_num, img in enumerate(img_pathnames)" is exhausted
LoopOver == img_num >= N

\* lines 254-255: model_data = self.st.out_queue.get(), blocking while empty
QueueGet ==
    /\ hpc = "loop"
    /\ ~LoopOver
    /\ out_queue # <<>>
    /\ model_data' = Head(out_queue)
    /\ out_queue' = Tail(out_queue)
    /\ received' = Append(received, Head(out_queue))
    /\ hpc' = "dispatch"
    /\ UNCHANGED <<config_vars, producer_vars, img_num, pools, table_vars,
                   artifact_vars, sent>>

\* the arguments of the task given to pools[0]
BppTask(data, path, pos) ==
    [data |-> data, path |-> path, pos |-> pos, st |-> "queued"]

\* the arguments of the task given to pools[1]; slept, observed and missed
\* are history: the task had to wait, the task saw the cell written, the
\* task took a written cell for an empty one
ImgTask(path, patches, pos) ==
    [path |-> path, patches |-> patches, pos |-> pos, st |-> "queued",
     metric |-> 0, cont |-> 0, slept |-> FALSE, observed |-> FALSE,
     missed |-> FALSE]

\* both tasks dispatched with position 0 whatever the image
codecs_out_routines_pos0(path, num, data, patches) ==
    [A |-> Append(pools.A, BppTask(data, path, 0)),
     B |-> Append(pools.B, ImgTask(path, patches, 0))]

\* _codecs_out_routines: one apply_async on each pool
codecs_out_routines(path, num, data, patches) ==
    [A |-> Append(pools.A, BppTask(data, path, num)),
     B |-> Append(pools.B, ImgTask(path, patches, num))]

Finished == {"done", "raised", "timeout"}

\* a submission that waits for an idle worker of the pool
ApplyAsyncReturns_idle_worker(tasks, n_proc) ==
    Cardinality({k \in 1 .. Len(tasks) : tasks[k].st \notin Finished}) < n_proc

\* Pool.apply_async puts the task on the pool's unbounded task queue and
\* returns at once
ApplyAsyncReturns(tasks, n_proc) == TRUE

\* lines 248, 255-258: patches = model_data; dispatch; next img_num, img
Dispatch ==
    /\ hpc = "dispatch"
    /\ ApplyAsyncReturns(pools.A, num_procs[1])
    /\ ApplyAsyncReturns(pools.B, num_procs[2])
    /\ pools' = codecs_out_routines(img_pathnames[img_num + 1], img_num,
                                    model_data, model_data)
    /\ img_num' = img_num + 1
    /\ hpc' = "loop"
    /\ UNCHANGED <<config_vars, producer_vars, queue_vars, model_data,
                   table_vars, artifact_vars>>

\* line 260: the loop is over, p.close() on both pools
PoolsClose ==
    /\ hpc = "loop"
    /\ LoopOver
    /\ hpc' = "join"
    /\ UNCHANGED <<config_vars, producer_vars, queue_vars, img_num, model_data,
                   pools, table_vars, artifact_vars>>

\* a closed pool's join returns when every task of the pool has returned
PoolJoined(tasks) == \A k \in 1 .. Len(tasks) : tasks[k].st \in Finished

\* only pools[0] is joined
PoolsJoined_first_only == PoolJoined(pools.A)

\* no pool is joined
PoolsJoined_none == TRUE

\* line 261: p.join() on pools[0], then on pools[1]
PoolsJoined == PoolJoined(pools.A) /\ PoolJoined(pools.B)

PoolsJoin ==
    /\ hpc = "join"
    /\ PoolsJoined
    /\ hpc' = "report"
    /\ UNCHANGED <<config_vars, producer_vars, queue_vars, img_num, model_data,
                   pools, table_vars, artifact_vars>>

\* ------------------------------------------------------ _save_out_analysis
\* line 186: levels = bpps.shape[-1]
Levels(bpps_proxy) == Len(bpps_proxy[NET][0])

\* lines 185-194: np.array, reshape and concatenate build the (codecs,
\* images, columns) array only when every cell of both tables holds the
\* same number of levels; a None cell makes them raise
Rectangular(bpps_proxy, metrics_proxy) ==
    /\ Levels(bpps_proxy) >= 1
    /\ \A c \in Codecs : \A i \in ImageIndex :
          /\ Len(bpps_proxy[c][i]) = Levels(bpps_proxy)
          /\ \A m \in Metrics : Len(metrics_proxy[c][m][i]) = Levels(bpps_proxy)

\* lines 172-173: cols = product(names, range(levels)); name 0 is 'bpp',
\* name m + 1 is the metric m
Cols(levels) ==
    [x \in 1 .. (1 + NumMetrics) * levels |->
        <<(x - 1) \div levels, (x - 1) % levels>>]

\* lines 185-194: data[codec][image], the levels of the bpp cell followed by
\* the levels of each metric cell
DataRow(bpps_proxy, metrics_proxy, c, i) ==
    LET levels == Levels(bpps_proxy)
    IN [x \in 1 .. (1 + NumMetrics) * levels |->
           IF x <= levels THEN bpps_proxy[c][i][x]
           ELSE metrics_proxy[c][(x - levels - 1) \div levels][i]
                             [((x - levels - 1) % levels) + 1]]

\* the order of pathlib paths: by folder, then by name
PathLess(p, q) == p[1] < q[1] \/ (p[1] = q[1] /\ p[2] < q[2])

\* the place of index[k] among the sorted paths
Rank(index, k) ==
    1 + Cardinality({l \in 1 .. Len(index) : PathLess(index[l], index[k])})

\* rows left in the order of the listing
sort_index_keep_order(index, data) ==
    [r \in 1 .. Len(index) |-> [img |-> index[r], vals |-> data[r]]]

\* lines 174-176: DataFrame(data, index), df.sort_index()
sort_index(index, data) ==
    [r \in 1 .. Len(index) |->
        LET k == CHOOSE k \in 1 .. Len(index) : Rank(index, k) = r
        IN [img |-> index[k], vals |-> data[k]]]

RECURSIVE ColumnSum(_, _)
\* the sum of column x of the rows
ColumnSum(rows, x) ==
    IF rows = <<>> THEN 0 ELSE Head(rows).vals[x] + ColumnSum(Tail(rows), x)

\* float_format='%.5f' of num / den, in units of 0.00001
Format5(num, den) == (2 * 100000 * num + den) \div (2 * den)

\* lines 171-180: save_csv, the rows of the csv of one codec
save_csv(data, index, levels) ==
    LET df == sort_index(index, data)
    IN [cols |-> Cols(levels),
        rows |-> [r \in 1 .. Len(df) |->
                    [img |-> df[r].img,
                     vals |-> [x \in 1 .. Len(df[r].vals) |->
                                  Format5(df[r].vals[x], 1)]]],
        mean |-> [x \in 1 .. (1 + NumMetrics) * levels |->
                    Format5(ColumnSum(df, x), Len(df))]]

\* line 262: _save_out_analysis writes one csv per codec, or raises
SaveOutAnalysis ==
    /\ hpc = "report"
    /\ IF NoFolder(create_out_folder) \/ ~Rectangular(bpps, metrics)
       THEN UNCHANGED <<reports, csv>>
       ELSE /\ reports' = Codecs
            /\ csv' = [c \in Codecs |->
                          save_csv([k \in 1 .. N |->
                                       DataRow(bpps, metrics, c, k - 1)],
                                   img_pathnames, Levels(bpps))]
    /\ hpc' = "done"
    /\ UNCHANGED <<config_vars, producer_vars, queue_vars, img_num, model_data,
                   pools, table_vars, files, timeout_msgs>>

\* ------------------------------------------------------------ the pools
\* the tasks a worker of the pool is executing
Running(tasks) ==
    {k \in 1 .. Len(tasks) : tasks[k].st \notin (Finished \cup {"queued"})}

\* Pool(n_proc): an idle worker takes the oldest queued task
CanStart(tasks, k, n_proc) ==
    /\ k \in 1 .. Len(tasks)
    /\ tasks[k].st = "queued"
    /\ \A l \in 1 .. (k - 1) : tasks[l].st # "queued"
    /\ Cardinality(Running(tasks)) < n_proc

\* a worker of pools[0] takes task k
AStart(k) ==
    /\ CanStart(pools.A, k, num_procs[1])
    /\ pools' = [pools EXCEPT !.A[k].st = "run"]
    /\ UNCHANGED <<config_vars, producer_vars, queue_vars, coord_vars,
                   table_vars, artifact_vars>>

\* the values ImgProc.calc_bpp_using_gzip can write for a payload
BppValues(data) == {GzipBpp(data)} \cup (IF falsy_bpp THEN {ZeroBpp} ELSE {})

\* ImgProc.calc_bpp_using_gzip(data, path, bpps[Codecs.NET], img_num)
ACalcBpp(k) ==
    /\ k \in 1 .. Len(pools.A)
    /\ pools.A[k].st = "run"
    /\ \/ /\ \E v \in BppValues(pools.A[k].data) :
                bpps' = [bpps EXCEPT ![NET][pools.A[k].pos] = v]
          /\ bpp_writes' = [bpp_writes EXCEPT ![NET][pools.A[k].pos] =
                                Append(@, <<"A", k>>)]
          /\ pools' = [pools EXCEPT !.A[k].st = "done"]
       \/ /\ pools' = [pools EXCEPT !.A[k].st = "raised"]
          /\ UNCHANGED <<bpps, bpp_writes>>
    /\ UNCHANGED <<config_vars, producer_vars, queue_vars, coord_vars, metrics,
                   metric_writes, artifact_vars>>

\* a worker of pools[1] takes task k
BStart(k) ==
    /\ CanStart(pools.B, k, num_procs[2])
    /\ pools' = [pools EXCEPT !.B[k].st = "load"]
    /\ UNCHANGED <<config_vars, producer_vars, queue_vars, coord_vars,
                   table_vars, artifact_vars>>

\* line 270: orig_ref = ImgProc.load_image(...), or an exception (line 284)
BLoad(k) ==
    /\ k \in 1 .. Len(pools.B)
    /\ pools.B[k].st = "load"
    /\ \/ pools' = [pools EXCEPT !.B[k].st = "metric"]
       \/ pools' = [pools EXCEPT !.B[k].st = "raised"]
    /\ UNCHANGED <<config_vars, producer_vars, queue_vars, coord_vars,
                   table_vars, artifact_vars>>

\* a loop over the metrics that leaves the last one out
MetricsLeft_skip_last(m) == m + 2 < NumMetrics

\* line 272: "for metric in Metrics" has a member after metric m
MetricsLeft(m) == m + 1 < NumMetrics

\* lines 272-275: one iteration of "for metric in Metrics"; cont = 0 after the last
BMetric(k) ==
    /\ k \in 1 .. Len(pools.B)
    /\ pools.B[k].st = "metric"
    /\ LET t == pools.B[k]
           m == t.metric
       IN \/ /\ metrics' = [metrics EXCEPT ![NET][m][t.pos] =
                               CalcMetric(LoadImage(t.path), t.patches, m)]
             /\ metric_writes' = [metric_writes EXCEPT ![NET][m][t.pos] =
                                     Append(@, <<"B", k>>)]
             /\ pools' = [pools EXCEPT
                             !.B[k].metric = m + 1,
                             !.B[k].cont = IF MetricsLeft(m) THEN @ ELSE 0,
                             !.B[k].st = IF MetricsLeft(m) THEN "metric"
                                         ELSE "poll"]
          \/ /\ pools' = [pools EXCEPT !.B[k].st = "raised"]
             /\ UNCHANGED <<metrics, metric_writes>>
    /\ UNCHANGED <<config_vars, producer_vars, queue_vars, coord_vars, bpps,
                   bpp_writes, artifact_vars>>

\* a wait that never waits
WaitOver_always(cell) == TRUE

\* line 276: the loop goes on while "not bpp_proxy[pos]"
WaitOver(cell) == Truthy(cell)

\* line 276: the test of the while loop
BPoll(k) ==
    /\ k \in 1 .. Len(pools.B)
    /\ pools.B[k].st = "poll"
    /\ pools' = IF WaitOver(bpps[NET][pools.B[k].pos])
                THEN [pools EXCEPT !.B[k].st = "save", !.B[k].observed = TRUE]
                ELSE [pools EXCEPT !.B[k].st = "sleep", !.B[k].slept = TRUE,
                                   !.B[k].missed =
                                       @ \/ bpp_writes[NET][pools.B[k].pos] # <<>>]
    /\ UNCHANGED <<config_vars, producer_vars, queue_vars, coord_vars,
                   table_vars, artifact_vars>>

\* lines 277-281: the value of cont after one pass of the loop body
ContAfterSleep(cont) == cont

\* lines 277-281: time.sleep(1), then the timeout test on cont
BSleep(k) ==
    /\ k \in 1 .. Len(pools.B)
    /\ pools.B[k].st = "sleep"
    /\ LET c == ContAfterSleep(pools.B[k].cont)
       IN IF c > RetryCeiling
          THEN /\ timeout_msgs' = timeout_msgs \cup {pools.B[k].path}
               /\ pools' = [pools EXCEPT !.B[k].cont = c, !.B[k].st = "timeout"]
          ELSE /\ pools' = [pools EXCEPT !.B[k].cont = c, !.B[k].st = "poll"]
               /\ UNCHANGED timeout_msgs
    /\ UNCHANGED <<config_vars, producer_vars, queue_vars, coord_vars,
                   table_vars, files, reports, csv>>

\* lines 282-283: get_out_pathname and ImgProc.save_img, or an exception
BSave(k) ==
    /\ k \in 1 .. Len(pools.B)
    /\ pools.B[k].st = "save"
    /\ LET t == pools.B[k]
       IN \/ /\ ~NoFolder(create_out_folder)
             /\ files' = [files EXCEPT ![get_out_pathname(t.path)] =
                             Append(@, <<t.pos, t.patches>>)]
             /\ pools' = [pools EXCEPT !.B[k].st = "done"]
          \/ /\ pools' = [pools EXCEPT !.B[k].st = "raised"]
             /\ UNCHANGED files
    /\ UNCHANGED <<config_vars, producer_vars, queue_vars, coord_vars,
                   table_vars, reports, csv, timeout_msgs>>

\* --------------------------------------------------------- specifications
Producer == Forward \/ Put \/ PatchProcJoin
Coordinator == QueueGet \/ Dispatch \/ PoolsClose \/ PoolsJoin \/ SaveOutAnalysis
ATask(k) == AStart(k) \/ ACalcBpp(k)
BTask(k) == BStart(k) \/ BLoad(k) \/ BMetric(k) \/ BPoll(k) \/ BSleep(k) \/ BSave(k)

Next ==
    \/ Producer
    \/ Coordinator
    \/ \E k \in 1 .. MaxImages : ATask(k) \/ BTask(k)

Spec == Init /\ [][Next]_vars

\* every process is an operating-system process that keeps being scheduled
FairSpec ==
    /\ Spec
    /\ WF_vars(Producer)
    /\ WF_vars(Coordinator)
    /\ \A k \in 1 .. MaxImages : WF_vars(ATask(k)) /\ WF_vars(BTask(k))

\* a run with out_type NONE, the value train_model sets
NoneInit ==
    \E n \in 1 .. MaxImages : \E listing \in Listings(n) :
        Start(listing, n, "NONE", FALSE)

NoneSpec == NoneInit /\ [][Next]_vars

\* a run in which the compressed size of a payload can be 0
FalsyInit ==
    \E n \in 1 .. MaxImages : \E listing \in Listings(n) :
        Start(listing, n, "RECONSTRUCTION", TRUE)

FalsySpec == FalsyInit /\ [][Next]_vars

\* a run whose data loader yields a number of samples that is not the
\* number of listed images: one less, one more, or more than the queue holds
MismatchInit ==
    \E n \in 1 .. MaxImages : \E listing \in Listings(n) :
        \E samples \in {n - 1, n + 1, n + MaxQueue + 1} :
            Start(listing, samples, "RECONSTRUCTION", FALSE)

MismatchSpec == MismatchInit /\ [][Next]_vars

\* a run whose pool workers make no progress: no task is ever started
SlowInit ==
    \E n \in 1 .. MaxSlowImages :
        Start(DistinctListing(n), n, "RECONSTRUCTION", FALSE)

SlowNext == Forward \/ Put \/ QueueGet \/ Dispatch \/ PoolsClose

SlowSpec == SlowInit /\ [][SlowNext]_vars

\* the listing in sorted order
SortedListing(n) == [k \in 1 .. n |-> <<1, k>>]

\* the value of level l of a cell, from the image's seed value
CellValue(seed, c, kind, l) ==
    seed + (IF c = NET THEN 0 ELSE 100) + 10 * kind

\* _save_out_analysis on its own: both tables are filled, for every codec,
\* with cells of the same number of levels
ReportInit ==
    \E n \in 1 .. MaxImages :
    \E listing \in Listings(n) \cup {SortedListing(n)} :
    \E levels \in 1 .. MaxLevels :
    \E seed \in [0 .. (n - 1) -> [1 .. levels -> 1 .. MaxValue]] :
        /\ img_pathnames = listing
        /\ num_samples = n
        /\ out_type = "RECONSTRUCTION"
        /\ falsy_bpp = FALSE
        /\ queue_size = 1
        /\ num_procs = NumProcs(1)
        /\ ppc = "join"
        /\ batch_idx = 0
        /\ output = <<>>
        /\ j = 0
        /\ out_queue = <<>>
        /\ hpc = "report"
        /\ img_num = n
        /\ model_data = NoPayload
        /\ pools = [A |-> <<>>, B |-> <<>>]
        /\ bpps = [c \in Codecs |-> [i \in 0 .. (n - 1) |->
                      [l \in 1 .. levels |-> CellValue(seed[i][l], c, 0, l)]]]
        /\ metrics = [c \in Codecs |-> [m \in Metrics |-> [i \in 0 .. (n - 1) |->
                      [l \in 1 .. levels |-> CellValue(seed[i][l], c, m + 1, l)]]]]
        /\ files = [s \in {listing[k][2] : k \in 1 .. n} |-> <<>>]
        /\ reports = {}
        /\ csv = [c \in Codecs |-> NoCsv]
        /\ timeout_msgs = {}
        /\ bpp_writes = [c \in Codecs |-> [i \in 0 .. (n - 1) |-> <<>>]]
        /\ metric_writes = [c \in Codecs |-> [m \in Metrics |->
                                [i \in 0 .. (n - 1) |-> <<>>]]]
        /\ sent = <<>>
        /\ received = <<>>

ReportSpec == ReportInit /\ [][SaveOutAnalysis]_vars

\* ------------------------------------------------------------ the claims
TaskIds == 1 .. MaxImages

\* task k of pools[1] is in the polling loop of _save_imgs_from_patches
IsPolling(k) == k \in 1 .. Len(pools.B) /\ pools.B[k].st \in {"poll", "sleep"}

\* the image writes made by the task of pools[1] dispatched for position pos
ImgWritesOf(pos) ==
    {<<s, x>> \in {<<s, x>> \in Stems \X (1 .. MaxImages) : x <= Len(files[s])} :
        files[s][x][1] = pos}

SomeTaskRaised ==
    \/ \E k \in 1 .. Len(pools.A) : pools.A[k].st = "raised"
    \/ \E k \in 1 .. Len(pools.B) : pools.B[k].st = "raised"

\* C1: a task of pools[1] that polls the size-proxy cell stops polling: when
\* the cell is never written it gives up after the retry ceiling, logs the
\* timeout and returns without an image; it never polls forever.
C1_PollingEnds ==
    /\ \A k \in TaskIds : IsPolling(k) ~> ~IsPolling(k)
    /\ [](\A k \in 1 .. Len(pools.B) :
            pools.B[k].st = "timeout" =>
                /\ pools.B[k].path \in timeout_msgs
                /\ ImgWritesOf(pools.B[k].pos) = {})

\* C2: whatever tasks fail, the coordinator joins both pools, runs the
\* report builder and exits, and the producer's join on it returns.
C2_RunTerminates == <>(hpc = "done" /\ ppc = "done")

C4_WriteOnce ==
    /\ \A c \in Codecs : \A i \in ImageIndex :
          /\ Len(bpp_writes[c][i]) <= 1
          /\ \A m \in Metrics : Len(metric_writes[c][m][i]) <= 1
    /\ \A k, l \in 1 .. Len(pools.A) : pools.A[k].pos = pools.A[l].pos => k = l
    /\ \A k, l \in 1 .. Len(pools.B) : pools.B[k].pos = pools.B[l].pos => k = l

\* every cell of the learned codec has been written, for the largest listing
C4_Witness ==
    /\ N = MaxImages
    /\ \A i \in ImageIndex :
          /\ Len(bpp_writes[NET][i]) = 1
          /\ \A m \in Metrics : Len(metric_writes[NET][m][i]) = 1

\* C5: the tasks dispatched for image index k carry the k-th payload put on
\* the queue and the k-th path of the listing; what was got is a prefix of
\* what was put, and the queue holds the rest in order.
C5_FifoCorrelation ==
    /\ Len(pools.A) = img_num /\ Len(pools.B) = img_num
    /\ \A k \in 1 .. img_num :
          /\ pools.A[k].pos = k - 1 /\ pools.B[k].pos = k - 1
          /\ pools.A[k].data = sent[k] /\ pools.B[k].patches = sent[k]
          /\ pools.A[k].path = img_pathnames[k] /\ pools.B[k].path = img_pathnames[k]
    /\ sent = received \o out_queue

\* the last image's tasks were dispatched after the queue held two payloads
C5_Witness ==
    /\ N = MaxImages
    /\ img_num = N
    /\ queue_size >= 2
    /\ pools.B[N].patches = sent[N]
    /\ sent[1] # sent[N]

\* the payloads put on the queue whose dispatch has not been done yet
Outstanding == Len(sent) - img_num

\* C6: at most queue_size + 1 payloads are put and not yet dispatched (the
\* queue's content and the one the coordinator holds), nothing is dropped,
\* and no put goes through while the queue holds queue_size items.
C6_Backpressure ==
    /\ [](/\ Len(out_queue) <= queue_size
          /\ Outstanding <= queue_size + 1
          /\ Outstanding = Len(out_queue) + (IF hpc = "dispatch" THEN 1 ELSE 0)
          /\ Len(sent) = Len(received) + Len(out_queue))
    /\ [][Len(out_queue) = queue_size => sent' = sent]_vars

\* the queue is full while the coordinator holds one more payload
C6_Witness ==
    /\ Len(out_queue) = queue_size
    /\ hpc = "dispatch"
    /\ Outstanding = queue_size + 1

\* every task of both pools was dispatched and has returned
AllTasksReturned ==
    /\ Len(pools.A) = N
    /\ Len(pools.B) = N
    /\ \A k \in 1 .. N : pools.A[k].st \in Finished /\ pools.B[k].st \in Finished

ReportStarted == hpc \in {"report", "done"}

\* C7: the report builder starts only when all N tasks of each pool have
\* returned, and from then on no table cell and no image file changes.
C7_HardBarrier ==
    /\ [](ReportStarted => AllTasksReturned)
    /\ [][ReportStarted => UNCHANGED <<bpps, metrics, files>>]_vars

\* the report builder is about to run after a task of pools[1] had to wait
C7_Witness ==
    /\ hpc = "report"
    /\ N = MaxImages
    /\ \E k \in 1 .. N : pools.B[k].st = "done" /\ pools.B[k].slept

Artifacts == {s \in Stems : files[s] # <<>>}

\* C9: in a run of N payloads where no task raised, once the coordinator
\* and the producer have terminated every cell of the learned codec is
\* written and there are N image files, one per image index.
C9_EndToEnd ==
    (ppc = "done" /\ hpc = "done" /\ Len(sent) = N /\ ~SomeTaskRaised) =>
        /\ \A i \in ImageIndex :
              /\ bpps[NET][i] # None
              /\ \A m \in Metrics : metrics[NET][m][i] # None
              /\ Cardinality(ImgWritesOf(i)) = 1
        /\ Cardinality(Artifacts) = N

\* a run where no task raises ends with producer and coordinator terminated
NoRaiseTerminates == <>(SomeTaskRaised \/ (ppc = "done" /\ hpc = "done"))

\* C10: the coordinator gets exactly N payloads, only sample outputs are
\* ever put (no end marker), and the producer terminates only after the
\* coordinator has joined the pools, run the report builder and returned.
C10_Shutdown ==
    /\ Len(received) <= N
    /\ hpc \in {"join", "report", "done"} => Len(received) = N
    /\ Len(sent) <= num_samples
    /\ \A x \in 1 .. Len(sent) : sent[x] = AutoencOutput(x - 1)
    /\ ppc = "done" => (hpc = "done" /\ AllTasksReturned)

\* the producer has terminated for the largest listing
C10_Witness ==
    /\ ppc = "done"
    /\ N = MaxImages
    /\ Len(received) = N

\* C11: the learned codec's cells at i and the image of i depend only on
\* the i-th payload and the i-th path, whether the task of pools[1] found
\* the size-proxy cell written at once or had to wait for it.
C11_OrderIndependent ==
    \A k \in 1 .. Len(pools.B) :
        LET a == pools.A[k]
            b == pools.B[k]
        IN /\ a.st = "done" => bpps["NET"][k - 1] = GzipBpp(sent[k])
           /\ b.st = "done" =>
                 /\ \A m \in Metrics :
                       metrics["NET"][m][k - 1] =
                           CalcMetric(LoadImage(img_pathnames[k]), sent[k], m)
                 /\ Cardinality(ImgWritesOf(k - 1)) = 1
                 /\ \A w \in ImgWritesOf(k - 1) :
                       /\ w[1] = get_out_pathname(img_pathnames[k])
                       /\ files[w[1]][w[2]] = <<k - 1, sent[k]>>

\* in one run a task of pools[1] waited for its cell and another one found
\* it written, and both wrote their image
C11_Witness ==
    /\ N = MaxImages
    /\ img_num = N
    /\ \A k \in 1 .. N : pools.A[k].st = "done" /\ pools.B[k].st = "done"
    /\ pools.B[1].slept
    /\ ~pools.B[N].slept

\* the value of column x of the table of codec c for the image of index i
CellOfColumn(c, i, col) ==
    IF col[1] = 0 THEN bpps[c][i][col[2] + 1]
    ELSE metrics[c][col[1] - 1][i][col[2] + 1]

RECURSIVE ColumnTotal(_, _, _)
\* the sum of a column over the images of index below n
ColumnTotal(c, col, n) ==
    IF n = 0 THEN 0
    ELSE CellOfColumn(c, n - 1, col) + ColumnTotal(c, col, n - 1)

\* C12: the csv of each codec has N image rows and the row 'mean', each of
\* (1 + M) * L columns; the image rows are sorted by path, each holds the
\* values of its own image, and the last row is the column-wise mean (all
\* written with five decimals).
C12_ReportShape ==
    \A c \in reports :
        LET t == csv[c]
            width == (1 + NumMetrics) * Len(bpps[c][0])
        IN /\ Len(t.rows) = N
           /\ Len(t.cols) = width
           /\ Len(t.mean) = width
           /\ \A x \in 1 .. width :
                 t.cols[x] = <<(x - 1) \div Len(bpps[c][0]),
                               (x - 1) % Len(bpps[c][0])>>
           /\ \A r \in 1 .. (N - 1) : PathLess(t.rows[r].img, t.rows[r + 1].img)
           /\ \A r \in 1 .. N :
                 /\ Len(t.rows[r].vals) = width
                 /\ \E k \in 1 .. N :
                       /\ img_pathnames[k] = t.rows[r].img
                       /\ \A x \in 1 .. width :
                             t.rows[r].vals[x] =
                                 100000 * CellOfColumn(c, k - 1, t.cols[x])
           /\ \A x \in 1 .. width :
                 LET d == N * t.mean[x] - 100000 * ColumnTotal(c, t.cols[x], N)
                 IN 2 * d <= N /\ -2 * d <= N

\* the reports of a listing that was not sorted, with the most levels
C12_Witness ==
    /\ hpc = "done"
    /\ reports = Codecs
    /\ N = MaxImages
    /\ Len(bpps["NET"][0]) = MaxLevels
    /\ csv["NET"].rows[1].img = img_pathnames[N]
    /\ csv["NET"].rows[1].vals # csv["NET"].rows[N].vals

\* C13: a task of pools[1] that raised wrote no image, and left the metric
\* cells of its index either all written or all empty.
C13_NoPartialWrites ==
    \A k \in 1 .. Len(pools.B) :
        pools.B[k].st = "raised" =>
            /\ ImgWritesOf(pools.B[k].pos) = {}
            /\ \/ \A m \in Metrics : metrics["NET"][m][pools.B[k].pos] # None
               \/ \A m \in Metrics : metrics["NET"][m][pools.B[k].pos] = None

C15_SentinelDistinct ==
    \A k \in 1 .. Len(pools.B) :
        /\ pools.B[k].observed => bpp_writes["NET"][pools.B[k].pos] # <<>>
        /\ ~pools.B[k].missed

\* C16: for every size of pools[1], once the task of pools[0] for j has
\* written its cell the image of j is eventually written (unless the task
\* of pools[1] for j raises), whatever happens to the other indices.
C16_CrossIndexIsolation ==
    \A k \in TaskIds :
        (k <= Len(pools.A) /\ pools.A[k].st = "done")
            ~> (\/ ImgWritesOf(k - 1) # {}
                \/ (k <= Len(pools.B) /\ pools.B[k].st = "raised"))

\* C17: a task of pools[1] that is in or past the wait has written all M
\* metric cells of its index, with values that do not depend on the
\* size-proxy cell; while it waits, and when it returns by timeout, only
\* the image is missing.
C17_MetricsBeforeWait ==
    \A k \in 1 .. Len(pools.B) :
        LET t == pools.B[k]
        IN /\ t.st \in {"poll", "sleep", "save", "timeout", "done"} =>
                 \A m \in Metrics :
                     /\ metric_writes["NET"][m][t.pos] = << <<"B", k>> >>
                     /\ metrics["NET"][m][t.pos] =
                            CalcMetric(LoadImage(t.path), t.patches, m)
           /\ t.st \in {"poll", "sleep", "timeout"} => ImgWritesOf(t.pos) = {}

\* a task of pools[1] waits for a cell that will never be written: its
\* metric cells are written, its image is not
C17_Witness ==
    \E k \in 1 .. Len(pools.B) :
        /\ pools.B[k].st = "sleep"
        /\ pools.A[k].st = "raised"
        /\ bpps["NET"][k - 1] = None
        /\ \A m \in Metrics : metrics["NET"][m][k - 1] # None

\* the payloads the coordinator got that are held by tasks not yet returned
HeldByJobs ==
    Cardinality({k \in 1 .. Len(pools.B) :
                    pools.A[k].st \notin Finished \/ pools.B[k].st \notin Finished})

\* C18 as stated: the payloads held by tasks that have not returned are
\* bounded by the queue size and the pool sizes.
C18_PoolBackpressure == HeldByJobs <= queue_size + num_procs[1] + num_procs[2]

\* C18 amended: when the pool workers make no progress the dispatch is
\* never held back, every payload the coordinator got stays held by its
\* tasks, and only the payloads put and not yet dispatched are bounded, by
\* queue_size + 1.
C18_OnlyQueueBounds ==
    /\ hpc = "dispatch" => ENABLED Dispatch
    /\ HeldByJobs = img_num
    /\ Outstanding <= queue_size + 1

\* the inference loop has put every payload although no task was started:
\* the tasks hold more payloads than the queue and the pools have places
C18_Witness ==
    /\ N = MaxSlowImages
    /\ ppc = "join"
    /\ HeldByJobs = N
    /\ N > queue_size + num_procs[1] + num_procs[2]

\* a step of the coordinator or of the producer
MainStep == hpc' # hpc \/ ppc' # ppc \/ out_queue' # out_queue

\* C19: a step changes bpps only at [NET][i] when it is the write of the
\* task of pools[0] for i, changes metrics only at [NET][m][i] when it is
\* the write of the task of pools[1] for i, changes only the image file of
\* i when it is the save of the task of pools[1] for i, and changes none of
\* them when it is a step of the coordinator or the producer.
C19_Frame ==
    [][/\ \A c \in Codecs : \A i \in ImageIndex :
             bpps'[c][i] # bpps[c][i] =>
                 /\ c = "NET"
                 /\ i + 1 <= Len(pools.A)
                 /\ pools.A[i + 1].st = "run"
                 /\ pools'.A[i + 1].st = "done"
                 /\ UNCHANGED <<metrics, files>>
                 /\ \A l \in ImageIndex \ {i} : bpps'[c][l] = bpps[c][l]
       /\ \A c \in Codecs : \A m \in Metrics : \A i \in ImageIndex :
             metrics'[c][m][i] # metrics[c][m][i] =>
                 /\ c = "NET"
                 /\ i + 1 <= Len(pools.B)
                 /\ pools.B[i + 1].st = "metric"
                 /\ pools.B[i + 1].metric = m
                 /\ UNCHANGED <<bpps, files>>
                 /\ \A l \in ImageIndex \ {i} : metrics'[c][m][l] = metrics[c][m][l]
       /\ \A s \in Stems :
             files'[s] # files[s] =>
                 \E i \in ImageIndex :
                     /\ i + 1 <= Len(pools.B)
                     /\ pools.B[i + 1].st = "save"
                     /\ s = get_out_pathname(img_pathnames[i + 1])
                     /\ files'[s] = Append(files[s], <<i, sent[i + 1]>>)
                     /\ \A u \in Stems \ {s} : files'[u] = files[u]
                     /\ UNCHANGED <<bpps, metrics>>
       /\ MainStep => UNCHANGED <<bpps, metrics, files>>
      ]_vars

\* every cell of the learned codec and every image was written
C19_Witness ==
    /\ N = MaxImages
    /\ \A i \in ImageIndex :
          /\ bpps["NET"][i] # None
          /\ \A m \in Metrics : metrics["NET"][m][i] # None
          /\ ImgWritesOf(i) # {}

\* C20: when fewer than N payloads are put the coordinator never leaves its
\* loop, stays blocked in get once it got them all, writes no report, and
\* the producer's join never returns; when more than N + queue_size
\* payloads are to be put the producer never leaves its loop and stays
\* blocked in put once N + queue_size payloads are put.
C20_MismatchDeadlocks ==
    /\ num_samples < N =>
          /\ hpc \in {"loop", "dispatch"}
          /\ ppc # "done"
          /\ reports = {}
          /\ (hpc = "loop" /\ Len(received) = num_samples) => ~ENABLED Coordinator
    /\ num_samples > N + queue_size =>
          /\ ppc \in {"forward", "put"}
          /\ Len(sent) <= N + queue_size
          /\ (ppc = "put" /\ Len(sent) = N + queue_size) => ~ENABLED Producer

\* the producer waits in join for a coordinator that waits in get, and no
\* process can take a step
C20_Witness ==
    /\ N = MaxImages
    /\ num_samples < N
    /\ ppc = "join"
    /\ hpc = "loop"
    /\ out_queue = <<>>
    /\ ~ENABLED Next
====
